---- MODULE Spec2Model ----
(***************************************************************************)
(* State-machine model of the ChainBreak graph view                        *)
(* (frontend/src/components/GraphRenderer.js): model building, the D3      *)
(* renderer and its force simulations, the resize subscription, timers,    *)
(* the Louvain round trip, drag gestures and zoom.                         *)
(*                                                                         *)
(* Conventions                                                             *)
(*  - A JavaScript value of a raw payload is a string; the strings that    *)
(*    start with "#" stand for values that are not strings ("#7" the       *)
(*    number 7, "#null" null/undefined), "" is the empty string.           *)
(*  - An (x, y) position is one value: SimPos (0) is "where the            *)
(*    simulation put the node", 1..MaxPos are pointer positions; fx/fy     *)
(*    are one value too, NoPin (-1) being null.  The code always writes    *)
(*    x with y and fx with fy.                                             *)
(*  - Every handler is one atomic step (single-threaded event loop); the   *)
(*    React re-render that follows a handler is part of the step.          *)
(*  - A zoom scale is the exact number 2^e2 * 3^e3 * 5^e5, held as its     *)
(*    three exponents: 1.2 is <<1, 1, -1>>, 10 is <<1, 0, 1>>.             *)
(***************************************************************************)
EXTENDS Integers, Sequences, FiniteSets, TLC

VARIABLES
    graphData,         \* prop graphData: NoGraph or a raw payload
    effectPending,     \* the load effect is due for the rendered graphData
    illicitAddresses,  \* prop illicitAddresses (the set of flagged ids)
    closureIllicit,    \* illicitAddresses as captured by initializeD3's closure
    error,             \* useState error ("none" is null)
    isLoading,         \* useState isLoading
    layoutRunning,     \* useState layoutRunning
    communities,       \* useState communities
    containerReady,    \* useState containerReady
    zoomLevel,         \* useState zoomLevel
    nodeLists,         \* heap of node arrays created by the builders
    graphRef,          \* graphRef.current
    svgRef,            \* svgRef.current with the circles it holds
    sims,              \* every d3 force simulation created so far
    simulationRef,     \* simulationRef.current (index into sims, 0 is null)
    resizeObserver,    \* resizeObserverRef.current and what it observes
    containerSized,    \* the container has a non-zero width and height
    loadTimers,        \* pending 300 ms timers of the load effect
    layoutTimers,      \* pending 500 ms timers of runForceAtlas2
    pending,           \* community-detection requests in flight
    issued,            \* number of community-detection requests sent
    drag,              \* the drag gesture in progress
    reported,          \* what the last step reported to the user (toast)
    isFullscreen,      \* useState isFullscreen
    hostFullscreen,    \* document.fullscreenElement is set
    fsRequest,         \* pending requestFullscreen / exitFullscreen promise
    fsTimers,          \* pending 300 ms timers of handleFullscreenChange
    fsInits,           \* initializeD3 runs since the last fullscreen change
    selectedNode       \* App: useState selectedNode (the node shown in NodeDetails)

fsVars == <<isFullscreen, hostFullscreen, fsRequest, fsTimers, fsInits>>

vars == <<graphData, effectPending, illicitAddresses, closureIllicit, error, isLoading,
          layoutRunning, communities, containerReady, zoomLevel, nodeLists,
          graphRef, svgRef, sims, simulationRef, resizeObserver,
          containerSized, loadTimers, layoutTimers, pending, issued, drag,
          reported,
          isFullscreen, hostFullscreen, fsRequest, fsTimers, fsInits,
          selectedNode>>

----------------------------------------------------------------------------
(* Bounds of the model *)

MaxModels == 3      \* node arrays built in one run
MaxSims == 3        \* simulations created in one run
MaxTimers == 1      \* pending timers of each kind
MaxRequests == 2    \* community-detection requests sent in one run
MaxPos == 1         \* pointer positions
MaxZoomSteps == 13  \* net zoomIn / zoomOut presses since the last clamp or reset
MaxFsTimers == 2    \* pending timers of handleFullscreenChange

(* Program constants *)

SimPos == 0
NoPin == -1

\* Zoom scales: 2^e2 * 3^e3 * 5^e5
Scale(a, b, c) == [e2 |-> a, e3 |-> b, e5 |-> c]
Times(k, f) == Scale(k.e2 + f.e2, k.e3 + f.e3, k.e5 + f.e5)
Inverse(f) == Scale(0 - f.e2, 0 - f.e3, 0 - f.e5)
\* 10^7 * ln(k), to order the scales
LogOf(k) == k.e2 * 6931472 + k.e3 * 10986123 + k.e5 * 16094379
Below(k1, k2) == LogOf(k1) < LogOf(k2)

ScaleMin == Scale(-1, 0, -1)    \* scaleExtent lower end 0.1
ScaleMax == Scale(1, 0, 1)      \* scaleExtent upper end 10
ScaleOne == Scale(0, 0, 0)      \* d3.zoomIdentity.k and useState(1)

----------------------------------------------------------------------------
(* Raw payloads *)

NonStrings == {"#7", "#null"}
IsString(v) == v \notin NonStrings
Truthy(v) == v \notin {"", "#null"}

\* A node record of the payload.  type is "address", "transaction" or ""
\* (absent); balance and total_input_value are amounts in units of 10^8
\* satoshi (0: absent or zero).
TypedNode(v, t, b, tiv) ==
    [id |-> v, color |-> "", type |-> t, balance |-> b,
     total_input_value |-> tiv]
RawNode(v) == TypedNode(v, "", 0, 0)
RawEdge(s, t) == [source |-> s, target |-> t]

\* nodesKind / edgesKind: "array", "missing" (undefined or null) or "other"
\* (a truthy value that is not an array, e.g. a string or an object).
Payload(nk, ns, ek, es) ==
    [nodesKind |-> nk, nodes |-> ns, edgesKind |-> ek, edges |-> es]

NoGraph == Payload("none", <<>>, "none", <<>>)

GraphAB == Payload("array", <<RawNode("A"), RawNode("B")>>,
                   "array", <<RawEdge("A", "B")>>)
GraphB == Payload("array", <<RawNode("B")>>, "array", <<>>)
GraphDangling == Payload("array", <<RawNode("A")>>,
                         "array", <<RawEdge("A", "Z")>>)
GraphNotContainer == Payload("other", <<>>, "array", <<>>)

\* The payloads the host loads in the session specification.
Graphs == {GraphAB, GraphB, GraphDangling, GraphNotContainer}

----------------------------------------------------------------------------
(* GraphModelBuilder: initializeGraph *)

Map(s, F(_)) == [i \in 1..Len(s) |-> F(s[i])]

\* n && typeof n.id === 'string'
KeepNode(n) == IsString(n.id)

\* the mapped node: type is always 'circle', color falls back to the default
\* and size is always 8: the spread of the record's remaining fields leaves
\* out type, id, label, size, color, x and y
BuiltNode(n) ==
    [id |-> n.id, color |-> IF n.color = "" THEN "#6366f1" ELSE n.color,
     size |-> 8, type |-> "circle", balance |-> n.balance,
     total_input_value |-> n.total_input_value]

\* An edge filter without the source !== target test (the self-loops the
\* builder has to drop).
KeepEdgeMut(e) == Truthy(e.source) /\ Truthy(e.target)

\* e && e.source && e.target && e.source !== e.target
KeepEdge(e) == Truthy(e.source) /\ Truthy(e.target) /\ e.source # e.target

\* sourceIn / targetIn: the node array whose object the end has been replaced
\* by (forceLink), 0 while the end is still an id
BuiltEdge(e) ==
    [source |-> e.source, target |-> e.target, sourceIn |-> 0, targetIn |-> 0]

\* (graphData.nodes || []).filter throws when nodes (or edges) is a truthy
\* value without a filter method
BuildThrows(raw) == raw.nodesKind = "other" \/ raw.edgesKind = "other"

BuiltNodes(raw) == Map(SelectSeq(raw.nodes, KeepNode), BuiltNode)

\* A builder that loses the edges of the payload.
BuiltEdgesMut(raw) == <<>>

BuiltEdges(raw) == Map(SelectSeq(raw.edges, KeepEdge), BuiltEdge)

\* A new node array: positions are seeded, nothing is pinned.
\* root is the index of the loaded array this one descends from (itself).
NewList(ns, root) ==
    [nodes |-> ns, root |-> root,
     pos |-> [i \in 1..Len(ns) |-> SimPos],
     fix |-> [i \in 1..Len(ns) |-> NoPin]]

EmptyGraph == [nodes |-> 0, edges |-> <<>>]

\* initializeGraph: [ret, threw, lists, graph].  mounted is
\* containerRef.current being set.
initializeGraph(raw, mounted, lists, graph) ==
    IF raw = NoGraph \/ ~mounted
    THEN [ret |-> FALSE, threw |-> FALSE, lists |-> lists, graph |-> graph]
    ELSE IF BuildThrows(raw)
    THEN [ret |-> FALSE, threw |-> TRUE, lists |-> lists, graph |-> graph]
    ELSE [ret |-> TRUE, threw |-> FALSE,
          lists |-> Append(lists, NewList(BuiltNodes(raw), Len(lists) + 1)),
          graph |-> [nodes |-> Len(lists) + 1, edges |-> BuiltEdges(raw)]]

ListOf(lists, n) == IF n = 0 THEN NewList(<<>>, 0) ELSE lists[n]
NodeIds(lists, n) == {ListOf(lists, n).nodes[i].id : i \in 1..Len(ListOf(lists, n).nodes)}

----------------------------------------------------------------------------
(* RenderPipeline / LayoutEngine: initializeD3 *)

MinOf(a, b) == IF a <= b THEN a ELSE b
MaxOf(a, b) == IF a >= b THEN a ELSE b

\* attr('r') of a new circle, in tenths of a pixel (amount / 10^9 is then
\* the amount in units of 10^8)
Radius(d) ==
    IF d.type = "address" THEN MaxOf(60, MinOf(150, d.balance + 60))
    ELSE IF d.type = "transaction"
         THEN MaxOf(40, MinOf(120, d.total_input_value + 40))
         ELSE IF d.size # 0 THEN 10 * d.size ELSE 80

\* fill of a new circle: d.type is always 'circle'
NodeFill(d, illicit) == IF d.id \in illicit THEN "#ef4444" ELSE d.color
NodeStroke(d, illicit) == IF d.id \in illicit THEN "#dc2626" ELSE "#111827"

\* merged records which partition the circles' colours were last computed
\* from (none for a new svg) and how many times in a row it has been
\* applied: the colours themselves are fill and stroke.
NoMerge == [partition |-> <<>>, num_communities |-> 0, times |-> 0]

NoSvg ==
    [present |-> FALSE, attached |-> FALSE, nodes |-> 0, r |-> <<>>,
     fill |-> <<>>,
     stroke |-> <<>>, merged |-> NoMerge, k |-> ScaleOne, shown |-> ScaleOne]

\* the svg appended to the container, its circles bound to graph.nodes
NewSvg(graph, lists, illicit) ==
    LET ns == ListOf(lists, graph.nodes).nodes IN
    [present |-> TRUE, attached |-> TRUE, nodes |-> graph.nodes,
     r |-> [i \in 1..Len(ns) |-> Radius(ns[i])],
     fill |-> [i \in 1..Len(ns) |-> NodeFill(ns[i], illicit)],
     stroke |-> [i \in 1..Len(ns) |-> NodeStroke(ns[i], illicit)],
     merged |-> NoMerge, k |-> ScaleOne, shown |-> ScaleOne]

\* d3.forceSimulation(graph.nodes): the new simulation starts its timer
NewSim(graph) == [nodes |-> graph.nodes, running |-> TRUE, alphaTarget |-> 0]

\* forceSimulation's initializeNodes: a pinned node is put at its pin
InitNodes(l) ==
    [l EXCEPT !.pos = [i \in 1..Len(l.nodes) |->
                          IF l.fix[i] # NoPin THEN l.fix[i] ELSE l.pos[i]]]

\* forceLink(graph.edges).id(d => d.id), initialized with the simulation's
\* nodes: every end that is not yet an object is looked up by id and
\* replaced by the node object; the lookup throws "node not found" for an
\* id that is no node id
EndThrows(e, ids) ==
    \/ e.sourceIn = 0 /\ e.source \notin ids
    \/ e.targetIn = 0 /\ e.target \notin ids

LinkThrows(graph, lists) ==
    \E i \in 1..Len(graph.edges) :
        EndThrows(graph.edges[i], NodeIds(lists, graph.nodes))

\* graph.edges after the initialization: the edges before the first one that
\* throws are bound, and so is the source of that one if it was found
LinkedEdges(graph, lists) ==
    LET ids == NodeIds(lists, graph.nodes)
        es == graph.edges
        bad == {i \in 1..Len(es) : EndThrows(es[i], ids)}
        bind(e) == [e EXCEPT !.sourceIn = IF @ = 0 THEN graph.nodes ELSE @,
                             !.targetIn = IF @ = 0 THEN graph.nodes ELSE @]
    IN [i \in 1..Len(es) |->
          IF \A j \in bad : i < j THEN bind(es[i])
          ELSE IF i \in bad /\ (\A j \in bad : i <= j)
                  /\ es[i].sourceIn = 0 /\ es[i].source \in ids
               THEN [es[i] EXCEPT !.sourceIn = graph.nodes]
               ELSE es[i]]

\* The part of the state initializeD3 reads and writes.
D3State(svg, ss, sref, ready, err, lists) ==
    [svgRef |-> svg, sims |-> ss, simulationRef |-> sref,
     containerReady |-> ready, error |-> err, lists |-> lists, ret |-> FALSE,
     edges |-> <<>>, linked |-> FALSE]

\* initializeD3(graph), run on state st
initializeD3(st, graph, mounted, sized, illicit) ==
    IF ~mounted \/ ~sized
    THEN [st EXCEPT !.ret = FALSE]
    ELSE LET svg == NewSvg(graph, st.lists, illicit)
             ss == Append(st.sims, NewSim(graph))
             ls == IF graph.nodes = 0 THEN st.lists
                   ELSE [st.lists EXCEPT ![graph.nodes] = InitNodes(@)]
         IN IF LinkThrows(graph, st.lists)
            THEN [st EXCEPT !.svgRef = svg, !.sims = ss, !.lists = ls,
                            !.edges = LinkedEdges(graph, st.lists),
                            !.linked = TRUE,
                            !.error = "renderer", !.ret = FALSE]
            ELSE [st EXCEPT !.svgRef = svg, !.sims = ss, !.lists = ls,
                            !.edges = LinkedEdges(graph, st.lists),
                            !.linked = TRUE,
                            !.simulationRef = Len(ss),
                            !.containerReady = TRUE, !.ret = TRUE]

\* graph after a call of initializeD3 with result d: its edge objects are
\* the ones forceLink has written to
Linked(graph, d) == IF d.linked THEN [graph EXCEPT !.edges = d.edges] ELSE graph

\* What the re-render after a handler does to the DOM: with an error set the
\* error view replaces the graph view, so the container (with its svg) is
\* unmounted and an observer keeps observing the detached element.
Rendered(svg, err) ==
    IF err # "none" THEN [svg EXCEPT !.attached = FALSE] ELSE svg
Observed(obs, err) ==
    IF err # "none" /\ obs = "current" THEN "stale" ELSE obs

\* containerRef.current is set while the graph view is rendered
Mounted == graphData # NoGraph /\ error = "none"

----------------------------------------------------------------------------
(* Initial state: the component is rendered with no graphData *)

NoCommunities ==
    [present |-> FALSE, partition |-> [i \in {} |-> 0],
     num_communities |-> 0, hasModularity |-> FALSE]

NoDrag == [active |-> FALSE, list |-> 0, node |-> 0]

\* useState(null) of selectedNode; a selected node is the datum of a circle
NoSelection == [list |-> 0, node |-> 0]

Init ==
    /\ graphData = NoGraph
    /\ effectPending = "none"
    /\ illicitAddresses = {"A"}
    /\ closureIllicit = illicitAddresses
    /\ error = "none"
    /\ isLoading = FALSE
    /\ layoutRunning = FALSE
    /\ communities = NoCommunities
    /\ containerReady = FALSE
    /\ zoomLevel = ScaleOne
    /\ nodeLists = <<>>
    /\ graphRef = EmptyGraph
    /\ svgRef = NoSvg
    /\ sims = <<>>
    /\ simulationRef = 0
    /\ resizeObserver = "none"
    /\ containerSized = TRUE
    /\ loadTimers = 0
    /\ layoutTimers = 0
    /\ pending = {}
    /\ issued = 0
    /\ drag = NoDrag
    /\ selectedNode = NoSelection
    /\ reported = "none"
    /\ isFullscreen = FALSE
    /\ hostFullscreen = FALSE
    /\ fsRequest = "none"
    /\ fsTimers = 0
    /\ fsInits = 0

----------------------------------------------------------------------------
(* GraphSession: the load effect (useEffect on graphData) *)

\* The host passes a new graphData; the component re-renders with it and
\* the load effect becomes due.  No other handler runs before the effect.
Settled == effectPending = "none"

SetCurrentGraph(raw) ==
    /\ Settled
    /\ Len(nodeLists) < MaxModels
    /\ Len(sims) < MaxSims
    /\ loadTimers < MaxTimers
    /\ graphData' = raw
    /\ effectPending' = IF graphData = NoGraph THEN "mount" ELSE "update"
    /\ reported' = "none"
    /\ UNCHANGED <<illicitAddresses, closureIllicit, error, isLoading,
                   layoutRunning, communities, containerReady, zoomLevel,
                   nodeLists, graphRef, svgRef, sims, simulationRef,
                   resizeObserver, containerSized, loadTimers, layoutTimers,
                   pending, issued, drag>>
    /\ UNCHANGED fsVars

\* The host passes a new graphData and leaves its selection alone
Load(raw) == SetCurrentGraph(raw) /\ UNCHANGED selectedNode

\* The cleanup of the previous effect run (on an update), then the effect
\* body.  The render that precedes the effect used the new graphData and the
\* old error.
LoadEffect ==
    /\ ~Settled
    /\ effectPending' = "none"
    /\ LET hadEffect == effectPending = "update"
           mounted == error = "none"
           obs0 == IF hadEffect THEN "none" ELSE resizeObserver
           svg0 == IF hadEffect /\ mounted
                   THEN [svgRef EXCEPT !.attached = FALSE] ELSE svgRef
           sims0 == IF hadEffect /\ simulationRef # 0
                    THEN [sims EXCEPT ![simulationRef].running = FALSE]
                    ELSE sims
           sref0 == IF hadEffect THEN 0 ELSE simulationRef
           g0 == IF hadEffect THEN EmptyGraph ELSE graphRef
           b == initializeGraph(graphData, mounted, nodeLists, g0)
           st0 == D3State(svg0, sims0, sref0, FALSE,
                          IF b.threw THEN "graph" ELSE "none", b.lists)
           d == IF b.ret
                THEN initializeD3(st0, b.graph, mounted, containerSized,
                                  closureIllicit)
                ELSE st0
       IN /\ error' = d.error
          /\ containerReady' = d.containerReady
          /\ nodeLists' = d.lists
          /\ graphRef' = Linked(b.graph, d)
          /\ svgRef' = Rendered(d.svgRef, d.error)
          /\ sims' = d.sims
          /\ simulationRef' = d.simulationRef
          /\ resizeObserver' = Observed(IF d.ret THEN "current" ELSE obs0, d.error)
          /\ loadTimers' = IF d.ret THEN loadTimers + 1 ELSE loadTimers
    /\ reported' = "none"
    /\ UNCHANGED <<graphData, illicitAddresses, closureIllicit, isLoading,
                   layoutRunning, communities, zoomLevel, containerSized,
                   layoutTimers, pending, issued, drag>>
    /\ UNCHANGED fsVars
    /\ UNCHANGED selectedNode

----------------------------------------------------------------------------
(* ViewportManager: the resize subscription (setupResizeObserver) *)

\* The container's size changes (sized: the new size is non-zero).  An
\* observer on the mounted container calls initializeD3(graphRef.current).
ResizeNotified(sized) ==
    /\ Settled
    /\ graphData # NoGraph
    /\ Len(sims) < MaxSims
    /\ containerSized' = sized
    /\ LET st0 == D3State(svgRef, sims, simulationRef, containerReady, error,
                          nodeLists)
           d == IF resizeObserver = "current"
                THEN initializeD3(st0, graphRef, Mounted, sized, closureIllicit)
                ELSE st0
       IN /\ error' = d.error
          /\ containerReady' = d.containerReady
          /\ nodeLists' = d.lists
          /\ svgRef' = Rendered(d.svgRef, d.error)
          /\ sims' = d.sims
          /\ simulationRef' = d.simulationRef
          /\ resizeObserver' = Observed(resizeObserver, d.error)
          /\ graphRef' = Linked(graphRef, d)
    /\ reported' = "none"
    /\ UNCHANGED <<graphData, effectPending, illicitAddresses, closureIllicit, isLoading,
                   layoutRunning, communities, zoomLevel,
                   loadTimers, layoutTimers, pending, issued, drag,
                   selectedNode>>

\* A change of the container's size (to some size, or to none)
Resize(sized) == ResizeNotified(sized) /\ UNCHANGED fsVars

----------------------------------------------------------------------------
(* LayoutEngine: runForceAtlas2 and the simulations' own steps *)

\* The graph view (container, overlay) is rendered; the toolbar is rendered
\* with it unless isFullscreen
GraphViewShown == Settled /\ graphData # NoGraph /\ error = "none"
ToolbarShown == GraphViewShown /\ ~isFullscreen

\* runForceAtlas2 up to its setTimeout
runForceAtlas2 ==
    IF simulationRef = 0
    THEN UNCHANGED <<isLoading, layoutRunning, sims, layoutTimers>>
    ELSE /\ isLoading' = TRUE
         /\ layoutRunning' = TRUE
         /\ sims' = [sims EXCEPT ![simulationRef].running = TRUE]
         /\ layoutTimers' = layoutTimers + 1

\* The 300 ms timer of the load effect
LoadTimerFire ==
    /\ Settled
    /\ loadTimers > 0
    /\ layoutTimers < MaxTimers
    /\ loadTimers' = loadTimers - 1
    /\ IF simulationRef # 0 /\ Mounted /\ containerSized
       THEN runForceAtlas2
       ELSE UNCHANGED <<isLoading, layoutRunning, sims, layoutTimers>>
    /\ reported' = "none"
    /\ UNCHANGED <<graphData, effectPending, illicitAddresses, closureIllicit, error,
                   communities, containerReady, zoomLevel, nodeLists, graphRef,
                   svgRef, simulationRef, resizeObserver, containerSized,
                   pending, issued, drag>>
    /\ UNCHANGED fsVars
    /\ UNCHANGED selectedNode

\* The Run Layout button
ClickRunLayout ==
    /\ ToolbarShown
    /\ ~isLoading /\ ~layoutRunning /\ containerReady
    /\ layoutTimers < MaxTimers
    /\ runForceAtlas2
    /\ reported' = "none"
    /\ UNCHANGED <<graphData, effectPending, illicitAddresses, closureIllicit, error,
                   communities, containerReady, zoomLevel, nodeLists, graphRef,
                   svgRef, simulationRef, resizeObserver, containerSized,
                   loadTimers, pending, issued, drag>>
    /\ UNCHANGED fsVars
    /\ UNCHANGED selectedNode

\* The 500 ms timer of runForceAtlas2: simulationRef.current.alphaTarget(0)
\* throws when the reference is null and the state updates are skipped.
LayoutTimerFire ==
    /\ Settled
    /\ layoutTimers > 0
    /\ layoutTimers' = layoutTimers - 1
    /\ IF simulationRef = 0
       THEN UNCHANGED <<sims, layoutRunning, isLoading>>
       ELSE /\ sims' = [sims EXCEPT ![simulationRef].alphaTarget = 0]
            /\ layoutRunning' = FALSE
            /\ isLoading' = FALSE
    /\ reported' = "none"
    /\ UNCHANGED <<graphData, effectPending, illicitAddresses, closureIllicit, error,
                   communities, containerReady, zoomLevel, nodeLists, graphRef,
                   svgRef, simulationRef, resizeObserver, containerSized,
                   loadTimers, pending, issued, drag>>
    /\ UNCHANGED fsVars
    /\ UNCHANGED selectedNode

\* One tick of simulation s: a pinned node is put at its pin, every other
\* node where the forces take it.
TickList(l) ==
    [l EXCEPT !.pos = [i \in 1..Len(l.nodes) |->
                          IF l.fix[i] # NoPin THEN l.fix[i] ELSE SimPos]]

Tick(s) ==
    /\ Settled
    /\ s \in 1..Len(sims)
    /\ sims[s].running
    /\ sims[s].nodes # 0
    /\ nodeLists' = [nodeLists EXCEPT ![sims[s].nodes] = TickList(@)]
    /\ reported' = "none"
    /\ UNCHANGED <<graphData, effectPending, illicitAddresses, closureIllicit, error,
                   isLoading, layoutRunning, communities, containerReady,
                   zoomLevel, graphRef, svgRef, sims, simulationRef,
                   resizeObserver, containerSized, loadTimers, layoutTimers,
                   pending, issued, drag>>
    /\ UNCHANGED fsVars
    /\ UNCHANGED selectedNode

\* Simulation s cools below alphaMin and stops its timer (alphaTarget 0 only)
Cool(s) ==
    /\ Settled
    /\ s \in 1..Len(sims)
    /\ sims[s].running
    /\ sims[s].alphaTarget = 0
    /\ sims' = [sims EXCEPT ![s].running = FALSE]
    /\ reported' = "none"
    /\ UNCHANGED <<graphData, effectPending, illicitAddresses, closureIllicit, error,
                   isLoading, layoutRunning, communities, containerReady,
                   zoomLevel, nodeLists, graphRef, svgRef, simulationRef,
                   resizeObserver, containerSized, loadTimers, layoutTimers,
                   pending, issued, drag>>
    /\ UNCHANGED fsVars
    /\ UNCHANGED selectedNode

----------------------------------------------------------------------------
(* CommunityOverlayClient: runLouvainAlgorithm *)

schemeCategory10 ==
    <<"#1f77b4", "#ff7f0e", "#2ca02c", "#d62728", "#9467bd",
      "#8c564b", "#e377c2", "#7f7f7f", "#bcbd22", "#17becf">>
schemePaired ==
    <<"#a6cee3", "#1f78b4", "#b2df8a", "#33a02c", "#fb9a99", "#e31a1c",
      "#fdbf6f", "#ff7f00", "#cab2d6", "#6a3d9a", "#ffff99", "#b15928">>

\* d3.color(c).darker(1)
Darker(c) == "darker(" \o c \o ")"

InSeq(q, v) == \E j \in 1..Len(q) : q[j] = v
IndexIn(q, v) == CHOOSE j \in 1..Len(q) : q[j] = v

\* d3.scaleOrdinal with an implicit domain: a value joins the domain the
\* first time the scale is called with it.  ScaleDomain(ns, p, i) is the
\* domain after the circles 1..i have been coloured.
RECURSIVE ScaleDomain(_, _, _)
ScaleDomain(ns, p, i) ==
    IF i = 0 THEN <<>>
    ELSE LET q == ScaleDomain(ns, p, i - 1)
             id == ns[i].id
         IN IF id \in DOMAIN p /\ ~InSeq(q, p[id]) THEN Append(q, p[id]) ELSE q

\* A scale that gives every community index the first colour of its range.
colorScaleMut(ns, p, range, i) == range[1]

\* colorScale(partition[d.id]) for circle i
colorScale(ns, p, range, i) ==
    LET q == ScaleDomain(ns, p, i)
    IN range[((IndexIn(q, p[ns[i].id]) - 1) % Len(range)) + 1]

ScaleRange(num) == IF num <= 10 THEN schemeCategory10 ELSE schemePaired

\* A recolouring whose stroke is derived from the fill the circle has, not
\* from the community colour (the dependence on earlier colours that
\* idempotence has to exclude).
RecolorMut(svg, lists, data) ==
    LET ns == ListOf(lists, svg.nodes).nodes
        p == data.partition
        range == ScaleRange(data.num_communities)
    IN [svg EXCEPT
          !.fill = [i \in 1..Len(ns) |->
                      IF ns[i].id \in DOMAIN p
                      THEN colorScale(ns, p, range, i) ELSE ns[i].color],
          !.stroke = [i \in 1..Len(ns) |->
                      IF ns[i].id \in DOMAIN p
                      THEN Darker(svg.fill[i]) ELSE "#111827"],
          !.merged = [partition |-> p,
                      num_communities |-> data.num_communities,
                      times |-> IF /\ svg.merged.partition = p
                                   /\ svg.merged.num_communities
                                          = data.num_communities
                                THEN svg.merged.times + 1 ELSE 1]]

\* the recolouring of the circles of svg by data.partition (the 800 ms
\* transition is taken at its end values, which are computed from this
\* response alone)
Recolor(svg, lists, data) ==
    LET ns == ListOf(lists, svg.nodes).nodes
        p == data.partition
        range == ScaleRange(data.num_communities)
    IN [svg EXCEPT
          !.fill = [i \in 1..Len(ns) |->
                      IF ns[i].id \in DOMAIN p
                      THEN colorScale(ns, p, range, i) ELSE ns[i].color],
          !.stroke = [i \in 1..Len(ns) |->
                      IF ns[i].id \in DOMAIN p
                      THEN Darker(colorScale(ns, p, range, i)) ELSE "#111827"],
          !.merged = [partition |-> p,
                      num_communities |-> data.num_communities,
                      times |-> IF /\ svg.merged.partition = p
                                   /\ svg.merged.num_communities
                                          = data.num_communities
                                THEN svg.merged.times + 1 ELSE 1]]

\* Responses of the community service.  A failure is a rejected fetch, a
\* non-2xx status, success:false, or success:true without data.
FailureKinds == {"networkError", "non2xx", "successFalse", "noData"}

Data(p, hasP, num, hasM) ==
    [present |-> TRUE, partition |-> p, hasPartition |-> hasP,
     num_communities |-> num, hasModularity |-> hasM]

PartitionAB == [i \in {"A", "B"} |-> IF i = "A" THEN 0 ELSE 1]
PartitionA == [i \in {"A"} |-> 0]

Response(kind, data) == [kind |-> kind, data |-> data]

Responses ==
    {Response(k, Data(PartitionA, FALSE, 0, FALSE)) : k \in FailureKinds}
    \cup {Response("ok", Data(PartitionAB, TRUE, 2, TRUE)),
          Response("ok", Data(PartitionA, TRUE, 1, TRUE)),
          Response("ok", Data(PartitionAB, TRUE, 2, FALSE))}

\* setCommunities(data)
Stored(data) ==
    [present |-> TRUE, partition |-> data.partition,
     num_communities |-> data.num_communities,
     hasModularity |-> data.hasModularity]

\* A request in flight: its number and the model (root array) it was sent for
Request(n, root) == [n |-> n, graph |-> root]

\* runLouvainAlgorithm without its validation of the graph: the request is
\* sent whatever the model holds.
ClickRunLouvainMut ==
    /\ ToolbarShown
    /\ ~isLoading /\ containerReady
    /\ issued < MaxRequests
    /\ reported' = "none"
    /\ isLoading' = TRUE
    /\ issued' = issued + 1
    /\ pending' = pending \cup {Request(issued + 1, ListOf(nodeLists, graphRef.nodes).root)}
    /\ UNCHANGED <<graphData, effectPending, illicitAddresses, closureIllicit, error,
                   layoutRunning, communities, containerReady, zoomLevel,
                   nodeLists, graphRef, svgRef, sims, simulationRef,
                   resizeObserver, containerSized, loadTimers, layoutTimers,
                   drag>>
    /\ UNCHANGED fsVars
    /\ UNCHANGED selectedNode

\* The Run Louvain button: runLouvainAlgorithm up to its await
ClickRunLouvain ==
    /\ ToolbarShown
    /\ ~isLoading /\ containerReady
    /\ issued < MaxRequests
    /\ IF Len(ListOf(nodeLists, graphRef.nodes).nodes) = 0 \/ Len(graphRef.edges) = 0
       THEN /\ reported' = "toast.error"
            /\ isLoading' = FALSE
            /\ UNCHANGED <<pending, issued>>
       ELSE /\ reported' = "none"
            /\ isLoading' = TRUE
            /\ issued' = issued + 1
            /\ pending' = pending \cup {Request(issued + 1, ListOf(nodeLists, graphRef.nodes).root)}
    /\ UNCHANGED <<graphData, effectPending, illicitAddresses, closureIllicit, error,
                   layoutRunning, communities, containerReady, zoomLevel,
                   nodeLists, graphRef, svgRef, sims, simulationRef,
                   resizeObserver, containerSized, loadTimers, layoutTimers,
                   drag>>
    /\ UNCHANGED fsVars
    /\ UNCHANGED selectedNode

\* A response handler that also replaces the simulation by a new one (the
\* restart of the layout that a merge must not cause).
LouvainResponseMut(r, resp) ==
    /\ Settled
    /\ \E q \in pending : q.n = r
    /\ pending' = {q \in pending : q.n # r}
    /\ isLoading' = FALSE
    /\ IF resp.kind \in FailureKinds
       THEN /\ error' = "louvain"
            /\ reported' = "toast.error"
            /\ svgRef' = Rendered(svgRef, "louvain")
            /\ resizeObserver' = Observed(resizeObserver, "louvain")
            /\ UNCHANGED communities
       ELSE LET svg == IF svgRef.present /\ resp.data.hasPartition
                       THEN Recolor(svgRef, nodeLists, resp.data) ELSE svgRef
                err == IF resp.data.hasModularity THEN error ELSE "louvain"
            IN /\ communities' = Stored(resp.data)
               /\ error' = err
               /\ reported' = IF resp.data.hasModularity
                              THEN "toast.success" ELSE "toast.error"
               /\ svgRef' = Rendered(svg, err)
               /\ resizeObserver' = Observed(resizeObserver, err)
    /\ UNCHANGED <<graphData, effectPending, illicitAddresses, closureIllicit, layoutRunning,
                   containerReady, zoomLevel, nodeLists, graphRef,
                   containerSized, loadTimers, layoutTimers, issued, drag>>
    /\ Len(sims) < MaxSims
    /\ sims' = Append(sims, NewSim(graphRef))
    /\ simulationRef' = Len(sims) + 1
    /\ UNCHANGED fsVars
    /\ UNCHANGED selectedNode

\* runLouvainAlgorithm after its awaits: the response resp to request r
LouvainResponse(r, resp) ==
    /\ Settled
    /\ \E q \in pending : q.n = r
    /\ pending' = {q \in pending : q.n # r}
    /\ isLoading' = FALSE
    /\ IF resp.kind \in FailureKinds
       THEN /\ error' = "louvain"
            /\ reported' = "toast.error"
            /\ svgRef' = Rendered(svgRef, "louvain")
            /\ resizeObserver' = Observed(resizeObserver, "louvain")
            /\ UNCHANGED communities
       ELSE LET svg == IF svgRef.present /\ resp.data.hasPartition
                       THEN Recolor(svgRef, nodeLists, resp.data) ELSE svgRef
                err == IF resp.data.hasModularity THEN error ELSE "louvain"
            IN /\ communities' = Stored(resp.data)
               /\ error' = err
               /\ reported' = IF resp.data.hasModularity
                              THEN "toast.success" ELSE "toast.error"
               /\ svgRef' = Rendered(svg, err)
               /\ resizeObserver' = Observed(resizeObserver, err)
    /\ UNCHANGED <<graphData, effectPending, illicitAddresses, closureIllicit, layoutRunning,
                   containerReady, zoomLevel, nodeLists, graphRef, sims,
                   simulationRef, containerSized, loadTimers, layoutTimers,
                   issued, drag>>
    /\ UNCHANGED fsVars
    /\ UNCHANGED selectedNode

----------------------------------------------------------------------------
(* InteractionController: d3.drag on the circles *)

\* drag start on circle i of the mounted svg
DragStart(i) ==
    /\ ~drag.active
    /\ GraphViewShown /\ containerReady
    /\ svgRef.present /\ svgRef.attached /\ svgRef.nodes # 0
    /\ i \in 1..Len(nodeLists[svgRef.nodes].nodes)
    /\ sims' = IF simulationRef # 0
               THEN [sims EXCEPT ![simulationRef].alphaTarget = 3,
                                 ![simulationRef].running = TRUE]
               ELSE sims
    /\ nodeLists' = [nodeLists EXCEPT ![svgRef.nodes].fix[i] =
                                          nodeLists[svgRef.nodes].pos[i]]
    /\ drag' = [active |-> TRUE, list |-> svgRef.nodes, node |-> i]
    /\ reported' = "none"
    /\ UNCHANGED <<graphData, effectPending, illicitAddresses, closureIllicit, error,
                   isLoading, layoutRunning, communities, containerReady,
                   zoomLevel, graphRef, svgRef, simulationRef, resizeObserver,
                   containerSized, loadTimers, layoutTimers, pending, issued>>
    /\ UNCHANGED fsVars
    /\ UNCHANGED selectedNode

\* drag: the pointer moves to p
DragMove(p) ==
    /\ Settled
    /\ drag.active
    /\ nodeLists' = [nodeLists EXCEPT ![drag.list].fix[drag.node] = p]
    /\ reported' = "none"
    /\ UNCHANGED <<graphData, effectPending, illicitAddresses, closureIllicit, error,
                   isLoading, layoutRunning, communities, containerReady,
                   zoomLevel, graphRef, svgRef, sims, simulationRef,
                   resizeObserver, containerSized, loadTimers, layoutTimers,
                   pending, issued, drag>>
    /\ UNCHANGED fsVars
    /\ UNCHANGED selectedNode

\* A drag end that clears the pin under the same condition as it cools the
\* simulation (the deviation the drag-pin property has to exclude).
DragEndMut ==
    /\ Settled
    /\ drag.active
    /\ sims' = IF simulationRef # 0
               THEN [sims EXCEPT ![simulationRef].alphaTarget = 0]
               ELSE sims
    /\ nodeLists' = IF simulationRef # 0
                    THEN [nodeLists EXCEPT ![drag.list].fix[drag.node] = NoPin]
                    ELSE nodeLists
    /\ drag' = NoDrag
    /\ reported' = "none"
    /\ UNCHANGED <<graphData, effectPending, illicitAddresses, closureIllicit, error,
                   isLoading, layoutRunning, communities, containerReady,
                   zoomLevel, graphRef, svgRef, simulationRef, resizeObserver,
                   containerSized, loadTimers, layoutTimers, pending, issued>>
    /\ UNCHANGED fsVars
    /\ UNCHANGED selectedNode

\* drag end
DragEnd ==
    /\ Settled
    /\ drag.active
    /\ sims' = IF simulationRef # 0
               THEN [sims EXCEPT ![simulationRef].alphaTarget = 0]
               ELSE sims
    /\ nodeLists' = [nodeLists EXCEPT ![drag.list].fix[drag.node] = NoPin]
    /\ drag' = NoDrag
    /\ reported' = "none"
    /\ UNCHANGED <<graphData, effectPending, illicitAddresses, closureIllicit, error,
                   isLoading, layoutRunning, communities, containerReady,
                   zoomLevel, graphRef, svgRef, simulationRef, resizeObserver,
                   containerSized, loadTimers, layoutTimers, pending, issued>>
    /\ UNCHANGED fsVars
    /\ UNCHANGED selectedNode

----------------------------------------------------------------------------
(* GraphSession: the error view *)

ErrorViewShown == Settled /\ graphData # NoGraph /\ error # "none"

\* Retry: setError(null); initializeGraph(); initializeD3(graph)
ClickRetry ==
    /\ ErrorViewShown
    /\ Len(nodeLists) < MaxModels
    /\ Len(sims) < MaxSims
    /\ LET b == initializeGraph(graphData, Mounted, nodeLists, graphRef)
           st0 == D3State(svgRef, sims, simulationRef, containerReady,
                          IF b.threw THEN "graph" ELSE "none", b.lists)
           d == IF b.ret
                THEN initializeD3(st0, b.graph, Mounted, containerSized,
                                  closureIllicit)
                ELSE st0
       IN /\ error' = d.error
          /\ containerReady' = d.containerReady
          /\ nodeLists' = d.lists
          /\ graphRef' = Linked(b.graph, d)
          /\ svgRef' = Rendered(d.svgRef, d.error)
          /\ sims' = d.sims
          /\ simulationRef' = d.simulationRef
          /\ resizeObserver' = Observed(resizeObserver, d.error)
    /\ reported' = "none"
    /\ UNCHANGED <<graphData, effectPending, illicitAddresses, closureIllicit, isLoading,
                   layoutRunning, communities, zoomLevel, containerSized,
                   loadTimers, layoutTimers, pending, issued, drag>>
    /\ UNCHANGED fsVars
    /\ UNCHANGED selectedNode

\* nodes.map(n => ({ ...n, x: random, y: random })): copies that keep fx, fy
CopyList(l) == [l EXCEPT !.pos = [i \in 1..Len(l.nodes) |-> SimPos]]

\* Use Simple Layout: setError(null); graphRef.current.nodes = copies;
\* initializeD3(graphRef.current)
ClickSimpleLayout ==
    /\ ErrorViewShown
    /\ Len(nodeLists) < MaxModels
    /\ Len(sims) < MaxSims
    /\ LET ls == IF graphRef.nodes = 0 THEN nodeLists
                 ELSE Append(nodeLists, CopyList(nodeLists[graphRef.nodes]))
           g == IF graphRef.nodes = 0 THEN graphRef
                ELSE [graphRef EXCEPT !.nodes = Len(ls)]
           d == initializeD3(D3State(svgRef, sims, simulationRef,
                                     containerReady, "none", ls),
                             g, Mounted, containerSized, closureIllicit)
       IN /\ error' = d.error
          /\ containerReady' = d.containerReady
          /\ nodeLists' = d.lists
          /\ graphRef' = Linked(g, d)
          /\ svgRef' = Rendered(d.svgRef, d.error)
          /\ sims' = d.sims
          /\ simulationRef' = d.simulationRef
          /\ resizeObserver' = Observed(resizeObserver, d.error)
    /\ reported' = "none"
    /\ UNCHANGED <<graphData, effectPending, illicitAddresses, closureIllicit, isLoading,
                   layoutRunning, communities, zoomLevel, containerSized,
                   loadTimers, layoutTimers, pending, issued, drag>>
    /\ UNCHANGED fsVars
    /\ UNCHANGED selectedNode

----------------------------------------------------------------------------
(* GraphSession: resetGraph *)

\* resetGraph: graphRef.current is rebuilt from graphData; [threw, lists,
\* graph].  The new array belongs to the load the current one came from.
resetGraph(raw, lists, graph) ==
    IF BuildThrows(raw)
    THEN [threw |-> TRUE, lists |-> lists, graph |-> graph]
    ELSE [threw |-> FALSE,
          lists |-> Append(lists,
                           NewList(BuiltNodes(raw),
                                   IF graph.nodes = 0 THEN Len(lists) + 1
                                   ELSE lists[graph.nodes].root)),
          graph |-> [nodes |-> Len(lists) + 1, edges |-> BuiltEdges(raw)]]

\* The Reset button: nothing but graphRef.current (or error) is written
ClickReset ==
    /\ ToolbarShown
    /\ ~isLoading /\ containerReady
    /\ Len(nodeLists) < MaxModels
    /\ LET b == resetGraph(graphData, nodeLists, graphRef)
           err == IF b.threw THEN "graph" ELSE error
       IN /\ nodeLists' = b.lists
          /\ graphRef' = b.graph
          /\ error' = err
          /\ svgRef' = Rendered(svgRef, err)
          /\ resizeObserver' = Observed(resizeObserver, err)
    /\ reported' = "none"
    /\ UNCHANGED <<graphData, effectPending, illicitAddresses, closureIllicit, isLoading,
                   layoutRunning, communities, containerReady, zoomLevel,
                   sims, simulationRef, containerSized, loadTimers,
                   layoutTimers, pending, issued, drag>>
    /\ UNCHANGED fsVars
    /\ UNCHANGED selectedNode

----------------------------------------------------------------------------
(* InteractionController: the click listeners *)

\* What a call of onNodeClick hands to the host, kept in reported: the id of
\* the node datum, or "null"
Emitted(d) == d.id
EmittedNull == "null"

\* A click on a circle whose listener is followed by an svg listener that
\* does not look at the event's target: the event bubbles and null is
\* emitted last.
ClickNodeMut(i) ==
    /\ ~drag.active
    /\ GraphViewShown /\ containerReady
    /\ svgRef.present /\ svgRef.attached /\ svgRef.nodes # 0
    /\ i \in 1..Len(nodeLists[svgRef.nodes].nodes)
    /\ reported' = EmittedNull
    /\ UNCHANGED <<graphData, effectPending, illicitAddresses, closureIllicit,
                   error, isLoading, layoutRunning, communities, containerReady,
                   zoomLevel, nodeLists, graphRef, svgRef, sims, simulationRef,
                   resizeObserver, containerSized, loadTimers, layoutTimers,
                   pending, issued, drag>>
    /\ UNCHANGED fsVars
    /\ selectedNode' = NoSelection

\* The click event on circle i: nodes.on('click') calls onNodeClick(d) with
\* the datum bound to the circle; the event bubbles to the svg's listener,
\* whose target test (tagName 'circle') fails.  onNodeClick is always passed
\* by App.
ClickNode(i) ==
    /\ ~drag.active
    /\ GraphViewShown /\ containerReady
    /\ svgRef.present /\ svgRef.attached /\ svgRef.nodes # 0
    /\ i \in 1..Len(nodeLists[svgRef.nodes].nodes)
    /\ reported' = Emitted(nodeLists[svgRef.nodes].nodes[i])
    /\ UNCHANGED <<graphData, effectPending, illicitAddresses, closureIllicit,
                   error, isLoading, layoutRunning, communities, containerReady,
                   zoomLevel, nodeLists, graphRef, svgRef, sims, simulationRef,
                   resizeObserver, containerSized, loadTimers, layoutTimers,
                   pending, issued, drag>>
    /\ UNCHANGED fsVars
    /\ selectedNode' = [list |-> svgRef.nodes, node |-> i]

\* The click event on the svg itself (no circle, no line under the pointer):
\* svg.on('click') calls onNodeClick(null)
ClickCanvas ==
    /\ ~drag.active
    /\ GraphViewShown /\ containerReady
    /\ svgRef.present /\ svgRef.attached
    /\ reported' = EmittedNull
    /\ UNCHANGED <<graphData, effectPending, illicitAddresses, closureIllicit,
                   error, isLoading, layoutRunning, communities, containerReady,
                   zoomLevel, nodeLists, graphRef, svgRef, sims, simulationRef,
                   resizeObserver, containerSized, loadTimers, layoutTimers,
                   pending, issued, drag>>
    /\ UNCHANGED fsVars
    /\ selectedNode' = NoSelection

----------------------------------------------------------------------------
(* ExportService: exportAsImage *)

\* The Export PNG button; throws: saveSvgAsPng raises an exception
ClickExport(throws) ==
    /\ ToolbarShown
    /\ ~isLoading /\ containerReady
    /\ LET err == IF svgRef.present /\ throws THEN "export" ELSE error
       IN /\ error' = err
          /\ svgRef' = Rendered(svgRef, err)
          /\ resizeObserver' = Observed(resizeObserver, err)
    /\ reported' = "none"
    /\ UNCHANGED <<graphData, effectPending, illicitAddresses, closureIllicit, isLoading,
                   layoutRunning, communities, containerReady, zoomLevel,
                   nodeLists, graphRef, sims, simulationRef, containerSized,
                   loadTimers, layoutTimers, pending, issued, drag>>
    /\ UNCHANGED fsVars
    /\ UNCHANGED selectedNode

----------------------------------------------------------------------------
(* ViewportManager: zoom *)

\* Math.max(scaleExtent[0], Math.min(scaleExtent[1], k))
Clamp(lo, hi, k) == IF Below(k, lo) THEN lo ELSE IF Below(hi, k) THEN hi ELSE k

\* Factors of a wheel gesture, 2^(-deltaY * 0.002): halving, doubling and two
\* gestures of a very large magnitude
WheelFactors == {Scale(-1, 0, 0), Scale(1, 0, 0), Scale(-20, 0, 0), Scale(20, 0, 0)}

\* The zoom behaviour installed by initializeD3, scaleExtent([0.1, 10]):
\* a wheel gesture multiplies the held scale by factor, clamps it, applies it
\* to the group and reports it with setZoomLevel.
Wheel(factor) ==
    /\ GraphViewShown /\ containerReady
    /\ svgRef.present /\ svgRef.attached
    /\ LET k == Clamp(ScaleMin, ScaleMax, Times(svgRef.k, factor))
       IN /\ svgRef' = [svgRef EXCEPT !.k = k, !.shown = k]
          /\ zoomLevel' = k
    /\ reported' = "none"
    /\ UNCHANGED <<graphData, effectPending, illicitAddresses, closureIllicit, error,
                   isLoading, layoutRunning, communities, containerReady,
                   nodeLists, graphRef, sims, simulationRef, resizeObserver,
                   containerSized, loadTimers, layoutTimers, pending, issued,
                   drag>>
    /\ UNCHANGED fsVars
    /\ UNCHANGED selectedNode

\* svg.transition().call(d3.zoom().scaleBy, f): a new zoom behaviour, with the
\* default scaleExtent [0, Infinity] and no 'zoom' listener, sets the held
\* transform of the svg.
ScaleBy(svg, f) == [svg EXCEPT !.k = Times(svg.k, f)]

\* A zoom button: svg is svgRef.current after the transition
ZoomButton(svg) ==
    /\ ToolbarShown /\ containerReady
    /\ svg.k.e3 <= MaxZoomSteps /\ svg.k.e3 >= 0 - MaxZoomSteps
    /\ svgRef' = IF svgRef.present THEN svg ELSE svgRef
    /\ reported' = "none"
    /\ UNCHANGED <<graphData, effectPending, illicitAddresses, closureIllicit, error,
                   isLoading, layoutRunning, communities, containerReady,
                   zoomLevel, nodeLists, graphRef, sims, simulationRef,
                   resizeObserver, containerSized, loadTimers, layoutTimers,
                   pending, issued, drag>>
    /\ UNCHANGED fsVars
    /\ UNCHANGED selectedNode

\* scaleBy 1.2, scaleBy 1 / 1.2, transform(d3.zoomIdentity)
zoomIn == ZoomButton(ScaleBy(svgRef, Scale(1, 1, -1)))
zoomOut == ZoomButton(ScaleBy(svgRef, Inverse(Scale(1, 1, -1))))
resetZoom == ZoomButton([svgRef EXCEPT !.k = ScaleOne])

----------------------------------------------------------------------------
(* ViewportManager: fullscreen *)

\* The host handles one fullscreen request at a time (fsRequest), and a
\* change of the host's fullscreen state is one step: the fullscreenchange
\* event, the settling of the promise and the resize notification of the
\* same frame.  Only SpecLinks has both fullscreen and the error view.
FsUnchanged ==
    UNCHANGED <<graphData, effectPending, illicitAddresses, closureIllicit,
                error, isLoading, layoutRunning, communities, containerReady,
                zoomLevel, nodeLists, graphRef, svgRef, sims, simulationRef,
                resizeObserver, containerSized, loadTimers, layoutTimers,
                pending, issued, drag, selectedNode>>

\* The Fullscreen button: toggleFullscreen up to the promise
ClickFullscreen ==
    /\ ToolbarShown /\ containerReady
    /\ fsRequest = "none"
    /\ fsRequest' = IF hostFullscreen THEN "exit" ELSE "enter"
    /\ reported' = "none"
    /\ FsUnchanged
    /\ UNCHANGED <<isFullscreen, hostFullscreen, fsTimers, fsInits>>

\* A handler that raises the flag but never lowers it (the divergence of
\* isFullscreen from the host that the convergence property has to exclude).
FullscreenChangedMut(host) ==
    /\ fsTimers < MaxFsTimers
    /\ hostFullscreen' = host
    /\ isFullscreen' = (isFullscreen \/ host)
    /\ fsTimers' = IF svgRef.present THEN fsTimers + 1 ELSE fsTimers
    /\ ResizeNotified(containerSized)
    /\ fsInits' = IF Len(sims') > Len(sims) THEN 1 ELSE 0

\* handleFullscreenChange, then the resize notification: the host's
\* fullscreen state has become host
FullscreenChanged(host) ==
    /\ fsTimers < MaxFsTimers
    /\ hostFullscreen' = host
    /\ isFullscreen' = host
    /\ fsTimers' = IF svgRef.present THEN fsTimers + 1 ELSE fsTimers
    /\ ResizeNotified(containerSized)
    /\ fsInits' = IF Len(sims') > Len(sims) THEN 1 ELSE 0

\* requestFullscreen() is granted: .then(() => setIsFullscreen(true))
FullscreenGranted ==
    /\ fsRequest = "enter"
    /\ fsRequest' = "none"
    /\ FullscreenChanged(TRUE)

\* A rejection handled with the flag already set (the half-applied
\* fullscreen flag the failure property has to exclude).
FullscreenDeniedMut ==
    /\ Settled
    /\ fsRequest = "enter"
    /\ fsRequest' = "none"
    /\ reported' = "toast.error"
    /\ isFullscreen' = TRUE
    /\ FsUnchanged
    /\ UNCHANGED <<hostFullscreen, fsTimers, fsInits>>

\* requestFullscreen() is rejected: .catch logs and toasts
FullscreenDenied ==
    /\ Settled
    /\ fsRequest = "enter"
    /\ fsRequest' = "none"
    /\ reported' = "toast.error"
    /\ FsUnchanged
    /\ UNCHANGED <<isFullscreen, hostFullscreen, fsTimers, fsInits>>

\* handleKeyDown: Escape while document.fullscreenElement is set
EscKey ==
    /\ Settled
    /\ hostFullscreen
    /\ fsRequest = "none"
    /\ fsRequest' = "escExit"
    /\ reported' = "none"
    /\ FsUnchanged
    /\ UNCHANGED <<isFullscreen, hostFullscreen, fsTimers, fsInits>>

\* exitFullscreen() is fulfilled: .then(() => setIsFullscreen(false))
ExitGranted ==
    /\ fsRequest \in {"exit", "escExit"}
    /\ hostFullscreen
    /\ fsRequest' = "none"
    /\ FullscreenChanged(FALSE)

\* exitFullscreen() is rejected (the host has left fullscreen already):
\* toggleFullscreen's catch toasts, handleKeyDown's only logs
ExitRejected ==
    /\ Settled
    /\ fsRequest \in {"exit", "escExit"}
    /\ ~hostFullscreen
    /\ fsRequest' = "none"
    /\ reported' = IF fsRequest = "exit" THEN "toast.error" ELSE "none"
    /\ FsUnchanged
    /\ UNCHANGED <<isFullscreen, hostFullscreen, fsTimers, fsInits>>

\* The host leaves fullscreen on its own (its Escape gesture, a navigation)
HostExits ==
    /\ hostFullscreen
    /\ UNCHANGED fsRequest
    /\ FullscreenChanged(FALSE)

\* The 300 ms timer of handleFullscreenChange: initializeD3(graphRef.current)
FullscreenTimerFire ==
    /\ Settled
    /\ fsTimers > 0
    /\ Len(sims) < MaxSims
    /\ fsTimers' = fsTimers - 1
    /\ LET st0 == D3State(svgRef, sims, simulationRef, containerReady, error,
                          nodeLists)
           d == initializeD3(st0, graphRef, Mounted, containerSized,
                             closureIllicit)
       IN /\ error' = d.error
          /\ containerReady' = d.containerReady
          /\ nodeLists' = d.lists
          /\ svgRef' = Rendered(d.svgRef, d.error)
          /\ sims' = d.sims
          /\ simulationRef' = d.simulationRef
          /\ resizeObserver' = Observed(resizeObserver, d.error)
          /\ fsInits' = IF Len(d.sims) > Len(sims) THEN fsInits + 1 ELSE fsInits
          /\ graphRef' = Linked(graphRef, d)
    /\ reported' = "none"
    /\ UNCHANGED <<graphData, effectPending, illicitAddresses, closureIllicit,
                   isLoading, layoutRunning, communities, zoomLevel,
                   containerSized, loadTimers, layoutTimers, pending, issued,
                   drag, isFullscreen, hostFullscreen, fsRequest,
                   selectedNode>>

----------------------------------------------------------------------------
(* The host's illicit-address list (App: threatIntelData) *)

IllicitSets == {{}, {"A"}, {"B"}}

\* setThreatIntelData: App re-renders and passes a new illicitAddresses prop.
\* A mounted GraphRenderer re-renders, but initializeD3 is a useCallback with
\* deps [onNodeClick] and onNodeClick is stable, so the callback of the first
\* render (and the set it closed over) stays in use.  The component is not
\* mounted while there is no graph; its first render then sees the current set.
UpdateIllicit(set) ==
    /\ Settled
    /\ set # illicitAddresses
    /\ illicitAddresses' = set
    /\ closureIllicit' = IF graphData = NoGraph THEN set ELSE closureIllicit
    /\ UNCHANGED <<graphData, effectPending, error, isLoading, layoutRunning,
                   communities, containerReady, zoomLevel, nodeLists, graphRef,
                   svgRef, sims, simulationRef, resizeObserver, containerSized,
                   loadTimers, layoutTimers, pending, issued, drag, reported>>
    /\ UNCHANGED fsVars
    /\ UNCHANGED selectedNode

----------------------------------------------------------------------------
(* App: the current graph and the selected node *)

\* handleAddressSubmit, once the fetched graph has arrived:
\* setCurrentGraph(graphResponse); setActiveTab('graph')
handleAddressSubmit(raw) == SetCurrentGraph(raw) /\ UNCHANGED selectedNode

\* handleGraphSelect, once the graph has arrived: setCurrentGraph(response);
\* setActiveTab('graph'); setSelectedNode(null)
handleGraphSelect(raw) == SetCurrentGraph(raw) /\ selectedNode' = NoSelection

\* NodeDetails onClose: setSelectedNode(null)
CloseNodeDetails ==
    /\ Settled
    /\ selectedNode # NoSelection
    /\ selectedNode' = NoSelection
    /\ reported' = "none"
    /\ UNCHANGED <<graphData, effectPending, illicitAddresses, closureIllicit,
                   error, isLoading, layoutRunning, communities, containerReady,
                   zoomLevel, nodeLists, graphRef, svgRef, sims, simulationRef,
                   resizeObserver, containerSized, loadTimers, layoutTimers,
                   pending, issued, drag>>
    /\ UNCHANGED fsVars

----------------------------------------------------------------------------
(* Specifications *)

FailureResponse == Response("networkError", Data(PartitionA, FALSE, 0, FALSE))

\* The session: lifecycle, errors, layout runs, community overlay, export
Next ==
    \/ \E raw \in Graphs : Load(raw)
    \/ LoadEffect
    \/ \E sized \in BOOLEAN : Resize(sized)
    \/ LoadTimerFire
    \/ ClickRunLayout
    \/ LayoutTimerFire
    \/ ClickRunLouvain
    \/ \E r \in 1..MaxRequests + 1, resp \in Responses : LouvainResponse(r, resp)
    \/ ClickRetry
    \/ ClickSimpleLayout
    \/ \E throws \in BOOLEAN : ClickExport(throws)

Spec == Init /\ [][Next]_vars

\* Interaction: drag gestures interleaved with the simulations' ticks and
\* with what else can happen during a gesture (a reload, a resize, timers, a
\* failing community-detection response)
NextDrag ==
    \/ Load(GraphAB)
    \/ LoadEffect
    \/ Resize(TRUE)
    \/ LoadTimerFire
    \/ LayoutTimerFire
    \/ \E s \in 1..MaxSims + 1 : Tick(s)
    \/ \E s \in 1..MaxSims + 1 : Cool(s)
    \/ ClickRunLouvain
    \/ \E r \in 1..MaxRequests + 1 : LouvainResponse(r, FailureResponse)
    \/ \E i \in 1..2 : DragStart(i)
    \/ \E p \in 1..MaxPos : DragMove(p)
    \/ DragEnd
    \/ ClickRetry
    \/ ClickSimpleLayout

SpecDrag == Init /\ [][NextDrag]_vars

\* The viewport: one graph, resizes and zoom gestures
NextZoom ==
    \/ Load(GraphAB)
    \/ LoadEffect
    \/ Resize(TRUE)
    \/ \E factor \in WheelFactors : Wheel(factor)
    \/ zoomIn
    \/ zoomOut
    \/ resetZoom

SpecZoom == Init /\ [][NextZoom]_vars

\* The model builder: one load of any raw payload of RawInputs, and resizes
\* of the container after it
RawValues == {"A", "B", "Z", "", "#7"}
RawNodeSeqs ==
    {<<>>} \cup {<<RawNode(a)>> : a \in RawValues}
    \cup {<<RawNode(a), RawNode(b)>> : a, b \in {"A", "B", "#7"}}
RawEdgeSeqs ==
    {<<>>} \cup {<<RawEdge(a, b)>> : a, b \in RawValues}
RawInputs ==
    {Payload("array", ns, "array", es) : ns \in RawNodeSeqs, es \in RawEdgeSeqs}
    \cup {Payload(nk, <<>>, ek, <<>>) : nk, ek \in {"missing", "other"}}

NextBuild ==
    \/ \E raw \in RawInputs : graphData = NoGraph /\ Load(raw)
    \/ LoadEffect
    \/ \E sized \in BOOLEAN : Resize(sized)

SpecBuild == Init /\ [][NextBuild]_vars

\* The community overlay: loads, resets and successful merges of the
\* partitions of OverlayResponses, with the simulation ticking
PartitionBA == [i \in {"A", "B"} |-> IF i = "A" THEN 1 ELSE 0]
PartitionB == [i \in {"B"} |-> 0]

OverlayResponses ==
    {Response("ok", Data(p, TRUE, 2, TRUE)) :
        p \in {PartitionAB, PartitionBA, PartitionA, PartitionB}}

NextOverlay ==
    \/ \E raw \in {GraphAB, GraphB} : Load(raw)
    \/ LoadEffect
    \/ LoadTimerFire
    \/ LayoutTimerFire
    \/ \E s \in 1..MaxSims + 1 : Tick(s)
    \/ ClickRunLouvain
    \/ \E r \in 1..MaxRequests + 1, resp \in OverlayResponses :
          LouvainResponse(r, resp)
    \/ ClickReset

SpecOverlay == Init /\ [][NextOverlay]_vars

\* The viewport: loads, resizes and fullscreen changes
NextView ==
    \/ \E raw \in {GraphAB, GraphB} : Load(raw)
    \/ LoadEffect
    \/ \E sized \in BOOLEAN : Resize(sized)
    \/ LoadTimerFire
    \/ LayoutTimerFire
    \/ ClickFullscreen
    \/ FullscreenGranted
    \/ FullscreenDenied
    \/ EscKey
    \/ ExitGranted
    \/ ExitRejected
    \/ HostExits
    \/ FullscreenTimerFire

SpecView == Init /\ [][NextView]_vars

\* The illicit flags: loads, resizes and updates of the host's list
NextIllicit ==
    \/ \E raw \in {GraphAB, GraphB} : Load(raw)
    \/ LoadEffect
    \/ \E sized \in BOOLEAN : Resize(sized)
    \/ LoadTimerFire
    \/ \E set \in IllicitSets : UpdateIllicit(set)

SpecIllicit == Init /\ [][NextIllicit]_vars

\* Pointer input on the graph: presses, releases and clicks on the circles,
\* clicks on the canvas and zoom buttons, with the simulation ticking
NextClick ==
    \/ \E raw \in {GraphAB, GraphB} : Load(raw)
    \/ LoadEffect
    \/ LoadTimerFire
    \/ \E s \in 1..MaxSims + 1 : Tick(s)
    \/ \E s \in 1..MaxSims + 1 : Cool(s)
    \/ \E i \in 1..2 : DragStart(i)
    \/ DragEnd
    \/ zoomIn
    \/ resetZoom
    \/ \E i \in 1..2 : ClickNode(i)
    \/ ClickCanvas

SpecClick == Init /\ [][NextClick]_vars

\* Node sizes: loads of one-node payloads of every kind, with no, a medium
\* and a very large amount (in units of 10^8 satoshi), and resizes
Amounts == {0, 50, 200}
TypedGraphs ==
    {Payload("array", <<TypedNode(v, t, b, tiv)>>, "array", <<>>) :
        v \in {"A", "B"}, t \in {"address", "transaction", ""},
        b \in Amounts, tiv \in Amounts}

NextRadius ==
    \/ \E raw \in TypedGraphs : graphData = NoGraph /\ Load(raw)
    \/ LoadEffect
    \/ LoadTimerFire
    \/ \E sized \in BOOLEAN : Resize(sized)

SpecRadius == Init /\ [][NextRadius]_vars

\* Layout runs: loads, resizes and layout runs, where a pending effect runs
\* and a pending timer fires
NextLayout ==
    \/ \E raw \in Graphs : Load(raw)
    \/ LoadEffect
    \/ \E sized \in BOOLEAN : Resize(sized)
    \/ LoadTimerFire
    \/ ClickRunLayout
    \/ LayoutTimerFire

SpecLayout ==
    /\ Init /\ [][NextLayout]_vars
    /\ WF_vars(LoadEffect)
    /\ WF_vars(LoadTimerFire)
    /\ WF_vars(LayoutTimerFire)

\* The edges' ends: one graph, a failing export, the buttons of the error
\* view and the re-initializations by resize and fullscreen change
NextLinks ==
    \/ Load(GraphAB)
    \/ LoadEffect
    \/ LoadTimerFire
    \/ LayoutTimerFire
    \/ \E sized \in BOOLEAN : Resize(sized)
    \/ ClickExport(TRUE)
    \/ ClickRetry
    \/ ClickSimpleLayout
    \/ ClickFullscreen
    \/ FullscreenGranted
    \/ FullscreenTimerFire

SpecLinks == Init /\ [][NextLinks]_vars

\* The host's selection: graphs arriving through either handler, clicks on
\* circles and on the canvas, and NodeDetails being closed
NextApp ==
    \/ \E raw \in {GraphAB, GraphB} : handleAddressSubmit(raw)
    \/ \E raw \in {GraphAB, GraphB} : handleGraphSelect(raw)
    \/ LoadEffect
    \/ LoadTimerFire
    \/ LayoutTimerFire
    \/ \E i \in 1..2 : ClickNode(i)
    \/ ClickCanvas
    \/ CloseNodeDetails

SpecApp == Init /\ [][NextApp]_vars

----------------------------------------------------------------------------
(* Properties *)

SameColours ==
    /\ svgRef'.fill = svgRef.fill
    /\ svgRef'.stroke = svgRef.stroke

\* C1: a response to a request that is no longer the most recently issued one
\* is discarded: the step that consumes it changes no fill, no stroke and
\* not the stored communities result.
C1_StaleResponseDiscarded ==
    [][\A q \in pending :
          (q \notin pending' /\ q.n < issued)
              => (SameColours /\ communities' = communities)]_vars

\* C2: a response to a request that was sent for an earlier graph than the
\* one now drawn recolours no circle of the drawn graph and does not set
\* the stored communities result.
C2_ResponseAfterReloadIgnored ==
    [][\A q \in pending :
          (/\ q \notin pending'
           /\ svgRef.present /\ svgRef.attached
           /\ ListOf(nodeLists, svgRef.nodes).root # q.graph)
              => (SameColours /\ communities' = communities)]_vars

\* C3: a tick puts the node being dragged at its pin and nothing else moves
\* it while the gesture lasts; drag end leaves the dragged node unpinned,
\* whatever happened during the gesture; a tick moves every unpinned node of
\* its simulation.
DraggedPos == nodeLists[drag.list].pos[drag.node]
DraggedPin == nodeLists[drag.list].fix[drag.node]

C3_DragPin ==
    /\ [](drag.active => DraggedPin # NoPin)
    /\ [][drag.active =>
            nodeLists'[drag.list].pos[drag.node] \in {DraggedPos, DraggedPin}]_vars
    /\ [][(drag.active /\ ~drag'.active) =>
            nodeLists'[drag.list].fix[drag.node] = NoPin]_vars
    /\ [][\A s \in 1..Len(sims) : Tick(s) =>
            \A i \in 1..Len(nodeLists[sims[s].nodes].nodes) :
                nodeLists'[sims[s].nodes].pos[i] =
                    IF nodeLists[sims[s].nodes].fix[i] # NoPin
                    THEN nodeLists[sims[s].nodes].fix[i] ELSE SimPos]_vars

\* C3 witness: a gesture has ended after a tick had put the dragged node at the
\* pointer position while something else (an error, a re-initialization)
\* happened: the node is unpinned and still where the pointer left it.
C3_Witness ==
    /\ ~drag.active
    /\ Len(sims) >= 2
    /\ \E l \in 1..Len(nodeLists) : \E i \in 1..Len(nodeLists[l].nodes) :
          nodeLists[l].pos[i] = 1 /\ nodeLists[l].fix[i] = NoPin

\* C4: the session never goes from Idle or Error to Ready in one step.
SessionIdle == graphData = NoGraph
SessionError == graphData # NoGraph /\ error # "none"
SessionInitializing == graphData # NoGraph /\ error = "none" /\ ~containerReady
SessionReady == graphData # NoGraph /\ error = "none" /\ containerReady

C4_ReadyOnlyViaInitializing ==
    [][(SessionIdle \/ SessionError) => ~SessionReady']_vars

\* C5: a failure of community detection or of image export never sets the
\* error state (the graph view stays mounted).
C5_LocalFailuresNotFatal == error \notin {"louvain", "export"}

\* C6: a community-detection run that ends in failure (it reports an error)
\* changes no fill, no stroke and not the stored communities result.
C6_FailureLeavesOverlay ==
    [][\A q \in pending :
          (q \notin pending' /\ reported' = "toast.error")
              => (SameColours /\ communities' = communities)]_vars

\* C7: both ends of every edge of the built model are ids of its nodes.
C7_EdgeEndsPresent ==
    \A i \in 1..Len(graphRef.edges) :
        /\ graphRef.edges[i].source \in NodeIds(nodeLists, graphRef.nodes)
        /\ graphRef.edges[i].target \in NodeIds(nodeLists, graphRef.nodes)

\* C8: at most one simulation is ticking, and once a newly loaded graph has
\* been built no simulation created for an earlier graph is still ticking.
Ticking == {s \in 1..Len(sims) : sims[s].running}

C8_NoLeakedTicker ==
    /\ Cardinality(Ticking) <= 1
    /\ (Settled /\ graphRef.nodes # 0) =>
          \A s \in Ticking :
              ListOf(nodeLists, sims[s].nodes).root
                  = ListOf(nodeLists, graphRef.nodes).root

\* C9: the scale of the transform held for the svg is within [0.1, 10].
C9_ScaleWithinExtent ==
    svgRef.present => (~Below(svgRef.k, ScaleMin) /\ ~Below(ScaleMax, svgRef.k))

\* C10: every drawn circle whose id is in the illicit-address set has the
\* flagged fill and stroke.
C10_IllicitDrawnFlagged ==
    (svgRef.present /\ svgRef.attached) =>
        \A i \in 1..Len(nodeLists[svgRef.nodes].nodes) :
            nodeLists[svgRef.nodes].nodes[i].id \in illicitAddresses
                => (svgRef.fill[i] = "#ef4444" /\ svgRef.stroke[i] = "#dc2626")

\* C11: the step that builds a newly loaded graph, and a press of the Reset
\* button, leave the stored communities result empty and no circle coloured
\* from a partition.
C11_OverlayDiscarded ==
    [][(LoadEffect \/ ClickReset) =>
          (communities' = NoCommunities /\ svgRef'.merged = NoMerge)]_vars

\* C12: when a graph was built while the container had no size (no error,
\* containerReady false, no renderer initialized for the model yet), the
\* resize that gives the container a size makes containerReady true.
PostponedInit ==
    /\ Settled /\ graphData # NoGraph /\ error = "none"
    /\ graphRef.nodes # 0
    /\ ListOf(nodeLists, graphRef.nodes).root = graphRef.nodes
    /\ ~LinkThrows(graphRef, nodeLists)
    /\ \A s \in 1..Len(sims) : sims[s].nodes # graphRef.nodes
    /\ ~containerReady /\ ~containerSized

C12_RetriedOnResize ==
    [][(PostponedInit /\ containerSized') => containerReady']_vars

\* C13: after a fullscreen change (one change of the surface's size) the
\* renderer is re-initialized at most once.
C13_OneReinitPerChange == fsInits <= 1

\* C14: the step in which the host rejects a fullscreen request leaves
\* isFullscreen false, changes no other state of the session and reports
\* the failure to the user.
C14_DeniedChangesNothing ==
    [][(fsRequest = "enter" /\ fsRequest' = "none" /\ ~hostFullscreen') =>
          /\ ~isFullscreen /\ ~isFullscreen'
          /\ reported' = "toast.error"
          /\ FsUnchanged
          /\ UNCHANGED <<hostFullscreen, fsTimers>>]_vars

\* C14 witness: a request made on a ready graph view has been rejected and
\* reported.
C14_Witness ==
    /\ reported = "toast.error"
    /\ fsRequest = "none"
    /\ ~isFullscreen /\ ~hostFullscreen
    /\ containerReady /\ svgRef.attached /\ simulationRef # 0

\* C15: isFullscreen equals the host's fullscreen state; the step in which
\* the host leaves fullscreen (after Escape or on its own) makes isFullscreen
\* false and schedules a re-initialization; and when its timer fires on a
\* mounted, sized container the surface is re-initialized for the current
\* model.
C15_FullscreenConverges ==
    /\ [](isFullscreen = hostFullscreen)
    /\ [][(hostFullscreen /\ ~hostFullscreen') =>
            (~isFullscreen' /\ fsTimers' = fsTimers + 1)]_vars
    /\ [][(fsTimers' < fsTimers /\ Mounted /\ containerSized) =>
            /\ Len(sims') = Len(sims) + 1
            /\ svgRef'.present /\ svgRef'.nodes = graphRef.nodes]_vars

\* C15 witness: the host has entered and left fullscreen; the flag is down
\* and the re-initialization timers of both changes are pending.
C15_Witness ==
    /\ ~hostFullscreen /\ ~isFullscreen
    /\ fsTimers = 2

\* C16: a press of Retry, with a graphData the builder accepts, rebuilds the
\* model and, unless it ends in an error again, leaves a mounted rendering
\* surface and a running simulation, both bound to the rebuilt model.
C16_RetryRebuilds ==
    [][(ClickRetry /\ ~BuildThrows(graphData)) =>
          /\ graphRef'.nodes > Len(nodeLists)
          /\ error' = "none" =>
                /\ svgRef'.present /\ svgRef'.attached
                /\ svgRef'.nodes = graphRef'.nodes
                /\ simulationRef' # 0
                /\ sims'[simulationRef'].running
                /\ sims'[simulationRef'].nodes = graphRef'.nodes]_vars

\* C17: a merge of the partition that was merged last into the same circles
\* changes no fill and no stroke.
C17_MergeIdempotent ==
    [][(svgRef'.merged.times > 1 /\ svgRef'.merged.times > svgRef.merged.times)
          => SameColours]_vars

\* C17 witness: the same partition has been applied twice in a row to the
\* circles of a graph with both nodes in it.
C17_Witness ==
    /\ svgRef.present /\ svgRef.attached
    /\ svgRef.merged.times = 2
    /\ DOMAIN svgRef.merged.partition = {"A", "B"}
    /\ Len(svgRef.fill) = 2

\* C18: when a partition is merged into circles that carry the colours of
\* another partition with the same community count, a circle whose
\* community index is c gets the fill the circles of index c had.
C18_ColourByIndex ==
    [][(/\ svgRef.merged.times > 0 /\ svgRef'.merged.times > 0
        /\ svgRef'.nodes = svgRef.nodes
        /\ svgRef'.merged.num_communities = svgRef.merged.num_communities) =>
          \A i, j \in 1..Len(svgRef.fill) :
              LET ns == ListOf(nodeLists, svgRef.nodes).nodes
                  p1 == svgRef.merged.partition
                  p2 == svgRef'.merged.partition
              IN (/\ ns[i].id \in DOMAIN p1 /\ ns[j].id \in DOMAIN p2
                  /\ p1[ns[i].id] = p2[ns[j].id])
                    => svgRef'.fill[j] = svgRef.fill[i]]_vars

\* C19: the step that merges a successful response leaves every circle whose
\* node the partition omits with the fill and stroke it had, and sets no
\* error.
C19_OmittedKeepColour ==
    [][\A q \in pending :
          (q \notin pending' /\ svgRef.present /\ svgRef'.merged.times > 0) =>
              /\ error' = error
              /\ \A i \in 1..Len(svgRef.fill) :
                    ListOf(nodeLists, svgRef.nodes).nodes[i].id
                        \notin DOMAIN svgRef'.merged.partition
                      => /\ svgRef'.fill[i] = svgRef.fill[i]
                         /\ svgRef'.stroke[i] = svgRef.stroke[i]]_vars

\* C20: the step that merges a successful response neither restarts nor
\* replaces a simulation and changes no node array (ids, positions, pins),
\* not the model's edges and not which model the circles are bound to.
C20_MergeChangesColoursOnly ==
    [][\A q \in pending :
          (q \notin pending' /\ reported' = "toast.success") =>
              /\ UNCHANGED <<sims, simulationRef, nodeLists, graphRef>>
              /\ svgRef'.nodes = svgRef.nodes
              /\ svgRef'.attached = svgRef.attached]_vars

\* C20 witness: a partition has been merged into the circles of a graph
\* whose simulation is running.
C20_Witness ==
    /\ reported = "toast.success"
    /\ svgRef.present /\ svgRef.attached
    /\ svgRef.merged.times > 0
    /\ simulationRef # 0
    /\ sims[simulationRef].running

\* C21: while a communities result is stored, every drawn circle of an
\* unflagged node that is in the stored partition has its community colour.
C21_OverlayDrawn ==
    (Settled /\ communities.present /\ svgRef.present /\ svgRef.attached) =>
        \A i \in 1..Len(svgRef.fill) :
            LET id == ListOf(nodeLists, svgRef.nodes).nodes[i].id
            IN (id \in DOMAIN communities.partition /\ id \notin illicitAddresses)
                 => svgRef.fill[i] = Recolor(svgRef, nodeLists, communities).fill[i]

\* C22: once a payload has been built, the session is in the build error
\* state, with no model installed, if the payload has neither a nodes nor an
\* edges array, and it is not in the build error state if it has both.
NotContainer(raw) == raw.nodesKind # "array" /\ raw.edgesKind # "array"
IsContainer(raw) == raw.nodesKind = "array" /\ raw.edgesKind = "array"

C22_BuildFailsIffNotContainer ==
    (Settled /\ graphData # NoGraph) =>
        /\ NotContainer(graphData) => (error = "graph" /\ graphRef = EmptyGraph)
        /\ IsContainer(graphData) => error # "graph"

\* C23: no edge of the built model has its source equal to its target, every
\* node record with a string id is kept, and the payload of one node A with
\* the single edge A to A gives 1 node and 0 edges.
SelfLoopInput ==
    Payload("array", <<RawNode("A")>>, "array", <<RawEdge("A", "A")>>)

C23_NoSelfLoop ==
    (Settled /\ graphData # NoGraph /\ graphRef.nodes # 0) =>
        /\ \A i \in 1..Len(graphRef.edges) :
              graphRef.edges[i].source # graphRef.edges[i].target
        /\ \A i \in 1..Len(graphData.nodes) :
              IsString(graphData.nodes[i].id) =>
                  graphData.nodes[i].id \in NodeIds(nodeLists, graphRef.nodes)
        /\ graphData = SelfLoopInput =>
              /\ Len(ListOf(nodeLists, graphRef.nodes).nodes) = 1
              /\ Len(graphRef.edges) = 0

\* C23 witness: the payload with the self-loop A to A has been built.
C23_Witness ==
    /\ Settled /\ graphData = SelfLoopInput
    /\ graphRef.nodes # 0
    /\ NodeIds(nodeLists, graphRef.nodes) = {"A"}
    /\ graphRef.edges = <<>>


\* C24: the node ids of the built model are pairwise distinct, whatever the
\* raw input was.
C24_NodeIdsDistinct ==
    (Settled /\ graphRef.nodes # 0) =>
        LET ns == ListOf(nodeLists, graphRef.nodes).nodes
        IN \A i, j \in 1..Len(ns) : ns[i].id = ns[j].id => i = j


\* C25: when the load effect has run for a payload whose nodes all have
\* distinct string ids and whose edges all join two distinct existing nodes,
\* with a mounted surface of non-zero size, the built model has as many nodes
\* and edges as the payload and the session is Ready.
WellFormed(raw) ==
    /\ IsContainer(raw)
    /\ \A i \in 1..Len(raw.nodes) : IsString(raw.nodes[i].id)
    /\ \A i, j \in 1..Len(raw.nodes) : raw.nodes[i].id = raw.nodes[j].id => i = j
    /\ \A i \in 1..Len(raw.edges) :
          /\ raw.edges[i].source # raw.edges[i].target
          /\ \E j \in 1..Len(raw.nodes) : raw.nodes[j].id = raw.edges[i].source
          /\ \E j \in 1..Len(raw.nodes) : raw.nodes[j].id = raw.edges[i].target

totalCommunities ==
    IF communities.present THEN communities.num_communities ELSE 0

\* C26: the step that consumes a successful response leaves any two drawn
\* circles whose nodes are in different communities of the response with
\* different fills, and the community count shown is the response's
\* num_communities.
C26_CommunitiesDistinct ==
    [][\A r \in 1..MaxRequests + 1, resp \in OverlayResponses :
          LouvainResponse(r, resp) =>
              /\ totalCommunities' = resp.data.num_communities
              /\ svgRef.present =>
                    LET ns == ListOf(nodeLists, svgRef.nodes).nodes
                        p == resp.data.partition
                    IN \A i, j \in 1..Len(ns) :
                          (/\ ns[i].id \in DOMAIN p /\ ns[j].id \in DOMAIN p
                           /\ p[ns[i].id] # p[ns[j].id])
                             => svgRef'.fill[i] # svgRef'.fill[j]]_vars

\* C26 witness: the partition A:0, B:1 with num_communities 2 was merged into
\* the drawn graph of A and B; the two circles differ and the count is 2.
C26_Witness ==
    /\ svgRef.present /\ svgRef.merged.times > 0
    /\ svgRef.merged.partition = PartitionAB
    /\ NodeIds(nodeLists, svgRef.nodes) = {"A", "B"}
    /\ svgRef.fill[1] # svgRef.fill[2]
    /\ totalCommunities = 2


\* C27: a step in which initializeD3 draws the graph (a load or a resize
\* that creates a simulation) leaves every circle with the fill and stroke
\* that the illicit-address set supplied at that moment gives it.
C27_FlagsFromCurrentSet ==
    [][((LoadEffect \/ \E sized \in BOOLEAN : Resize(sized))
          /\ Len(sims') > Len(sims)) =>
          LET ns == ListOf(nodeLists', svgRef'.nodes).nodes
          IN \A i \in 1..Len(ns) :
                /\ svgRef'.fill[i] = NodeFill(ns[i], illicitAddresses)
                /\ svgRef'.stroke[i] = NodeStroke(ns[i], illicitAddresses)]_vars


\* C28: a step in which initializeD3 creates a simulation and then fails
\* (the renderer error is set) does not leave that simulation ticking
\* without the session holding a reference to it.
C28_FailedInitStopsSimulation ==
    [][(Len(sims') > Len(sims) /\ error' = "renderer") =>
          (sims'[Len(sims')].running => simulationRef' = Len(sims'))]_vars


\* C29: a press of Export leaves the graph model, the node positions, the
\* simulations and the session state (error, loading, ready) unchanged, and
\* when no svg is attached to the container it reports an export error.
C29_ExportFrame ==
    [][(\E throws \in BOOLEAN : ClickExport(throws)) =>
          /\ UNCHANGED <<graphRef, nodeLists, sims, simulationRef, error,
                         isLoading, containerReady>>
          /\ (~svgRef.present \/ ~svgRef.attached) => reported' = "export.error"]_vars


KindRadius(n) ==
    IF n.type = "address" THEN MinOf(150, MaxOf(60, 60 + n.balance))
    ELSE MinOf(120, MaxOf(40, 40 + n.total_input_value))

C31_RadiusFromKind ==
    (/\ Settled /\ graphData # NoGraph /\ IsContainer(graphData)
     /\ svgRef.present /\ svgRef.attached
     /\ svgRef.nodes = graphRef.nodes /\ svgRef.merged = NoMerge) =>
        LET kept == SelectSeq(graphData.nodes, KeepNode)
        IN \A i \in 1..Len(svgRef.r) :
              /\ svgRef.r[i] >= 40 /\ svgRef.r[i] <= 150
              /\ (/\ kept[i].id \notin illicitAddresses
                  /\ kept[i].type \in {"address", "transaction"})
                    => svgRef.r[i] = KindRadius(kept[i])


\* C32: while a community-detection request is outstanding isLoading is
\* true (the Run Louvain button is disabled), and at most one request is
\* outstanding.
C32_LoadingWhileOutstanding ==
    pending # {} => (isLoading /\ Cardinality(pending) = 1)


\* C33: a layout run that is in progress (layoutRunning) is eventually
\* over: layoutRunning and isLoading are both false again.
C33_LayoutRunEnds == layoutRunning ~> (~layoutRunning /\ ~isLoading)


\* C34: while a drag is in progress the simulation reheated at its start
\* stays the session's simulation and stays heated (alphaTarget 0.3), and
\* the step that ends the drag cools that simulation.
C34_DragKeepsHeat ==
    [][(/\ drag.active /\ simulationRef # 0
        /\ sims[simulationRef].alphaTarget = 3) =>
          /\ drag'.active =>
                /\ simulationRef' = simulationRef
                /\ sims'[simulationRef].alphaTarget = 3
          /\ DragEnd => sims'[simulationRef].alphaTarget = 0]_vars


\* C35: while an svg is drawn, the zoom level shown on the toolbar equals the
\* scale of the transform held for the svg and the scale applied to its
\* content.
C35_ZoomLevelIsScale ==
    (Settled /\ svgRef.present /\ svgRef.attached) =>
        (zoomLevel = svgRef.k /\ zoomLevel = svgRef.shown)


\* C36: a step in which initializeD3 draws the graph and succeeds leaves
\* both ends of every edge of the model bound to a node object of the model's
\* current node array, which is the array of the session's simulation and of
\* the circles.
C36_EdgesInCurrentList ==
    [][(Len(sims') > Len(sims) /\ simulationRef' = Len(sims')) =>
          /\ sims'[simulationRef'].nodes = graphRef'.nodes
          /\ svgRef'.nodes = graphRef'.nodes
          /\ \A i \in 1..Len(graphRef'.edges) :
                /\ graphRef'.edges[i].sourceIn = graphRef'.nodes
                /\ graphRef'.edges[i].targetIn = graphRef'.nodes]_vars


\* C37: after a press of Reset the model in graphRef.current is the one the
\* session's simulation moves and the one the circles are bound to.
C37_ResetModelIsLive ==
    [][ClickReset =>
          /\ simulationRef' # 0 => sims'[simulationRef'].nodes = graphRef'.nodes
          /\ svgRef'.present => svgRef'.nodes = graphRef'.nodes]_vars


\* C38: once a new current graph has been built, the selected node is null
\* or a node of an array built for the current graph.
C38_SelectionInCurrentGraph ==
    (Settled /\ selectedNode # NoSelection) =>
        /\ graphRef.nodes # 0
        /\ ListOf(nodeLists, selectedNode.list).root
              = ListOf(nodeLists, graphRef.nodes).root


\* C39: a press of Run Louvain on a model with no nodes or no edges sends no
\* request, leaves the error null and the colours and the stored communities
\* unchanged, and ends with isLoading false.
C39_EmptyGraphNoRequest ==
    [][(/\ ClickRunLouvain
        /\ \/ Len(ListOf(nodeLists, graphRef.nodes).nodes) = 0
           \/ Len(graphRef.edges) = 0) =>
          /\ pending' = pending /\ issued' = issued
          /\ error' = "none"
          /\ SameColours
          /\ communities' = communities
          /\ ~isLoading']_vars

\* C39 witness: Run Louvain was pressed on the drawn graph of the single
\* node B, which has no edges; nothing was sent.
C39_Witness ==
    /\ reported = "toast.error"
    /\ graphData = GraphB /\ graphRef.nodes # 0
    /\ NodeIds(nodeLists, graphRef.nodes) = {"B"} /\ graphRef.edges = <<>>
    /\ svgRef.present /\ svgRef.attached
    /\ pending = {} /\ ~isLoading /\ error = "none"

====
